---------------------------- MODULE Spec2Model ----------------------------
(***************************************************************************)
(* Model of the Open Library provider                                      *)
(* (apps/backend/src/providers/openlibrary.rs): the details, search and    *)
(* id_from_isbn operations of OpenlibraryService, their transport calls,   *)
(* and the pure normalisation rules (get_key, page average, first release  *)
(* date, cover images, pagination).                                        *)
(*                                                                         *)
(* Conventions.  A Rust String is a sequence of one-character strings      *)
(* (parse_date inputs are sequences of lexical tokens).  Option<T> is a    *)
(* sequence of length 0 (None) or 1 (Some).  i32 values are TLA+ integers  *)
(* in MinI32..MaxI32 and every i32 operation of the code goes through      *)
(* AddI32 / MulI32, which report the overflow and the wrapped value.       *)
(***************************************************************************)
EXTENDS Integers, Sequences, FiniteSets, TLC

VARIABLES
    overflow_checks,    \* build profile: TRUE = debug (overflow panics), FALSE = release (wraps)
    page_limit,         \* OpenlibraryService.page_limit
    pc,                 \* position of the running operation
    args,               \* arguments of the running operation
    calls,              \* transport requests issued by the running operation, in order
    retries,            \* retries done by the RetryMiddleware of the running id_from_isbn
    data,               \* details: the decoded work record (OpenlibraryBook)
    entries,            \* details: editions.entries.unwrap_or_default()
    num_pages,          \* details: num_pages
    first_release_date, \* details: first_release_date
    creators,           \* details: creators
    result              \* what the operation returned

vars == <<overflow_checks, page_limit, pc, args, calls, retries, data, entries,
          num_pages, first_release_date, creators, result>>

---------------------------------------------------------------------------
(* Option<T> *)
None == <<>>
Some(x) == <<x>>
IsSome(o) == Len(o) = 1
Unwrap(o) == o[1]

(* Bounded sequences *)
SeqUpTo(S, n) == UNION {[1..k -> S] : k \in 0..n}

RECURSIVE Flatten(_)
Flatten(ss) == IF ss = <<>> THEN <<>> ELSE Head(ss) \o Flatten(Tail(ss))

---------------------------------------------------------------------------
(* i32 arithmetic.  MinI32 is written without the literal 2^31, which is   *)
(* not an i32.                                                             *)
MaxI32 == 2147483647
MinI32 == -MaxI32 - 1

(* a + b on i32: [ovf, val] with val the two's-complement wrapped sum. *)
AddI32(a, b) ==
    IF a >= 0 /\ b >= 0 /\ a > MaxI32 - b
      THEN [ovf |-> TRUE, val |-> (a + MinI32) + (b + MinI32)]
    ELSE IF a < 0 /\ b < 0 /\ a < MinI32 - b
      THEN [ovf |-> TRUE, val |-> (a - MinI32) + (b - MinI32)]
    ELSE [ovf |-> FALSE, val |-> a + b]

(* a * b on i32 for a >= 0 and b >= 0, as b wrapping additions of a (the   *)
(* wrapped product is the same and, the partial sums being monotonic, the  *)
(* product overflows exactly when one of the additions does).              *)
RECURSIVE MulI32(_, _)
MulI32(a, b) ==
    IF b = 0 THEN [ovf |-> FALSE, val |-> 0]
    ELSE LET r == MulI32(a, b - 1)
             s == AddI32(r.val, a)
         IN  [ovf |-> r.ovf \/ s.ovf, val |-> s.val]

(* a / b on i32 for b > 0: Rust's division truncates towards zero. *)
DivI32(a, b) ==
    IF a >= 0 \/ a % b = 0 THEN a \div b ELSE (a \div b) + 1

---------------------------------------------------------------------------
(* get_key *)

(* str::split(sep): the pieces between the separators, in order; never empty. *)
RECURSIVE Split(_, _)
Split(s, sep) ==
    IF s = <<>> THEN << <<>> >>
    ELSE LET rest == Split(Tail(s), sep)
         IN  IF Head(s) = sep
               THEN << <<>> >> \o rest
               ELSE << <<Head(s)>> \o rest[1] >> \o Tail(rest)

(* Variant of get_key that takes the first segment. *)
get_key_first(key) == Split(key, "/")[1]

get_key(key) == LET parts == Split(key, "/") IN parts[Len(parts)]

---------------------------------------------------------------------------
(* Cover image URLs *)
IMAGE_BASE_URL == "https://covers.openlibrary.org"
ImageSize == "M"

Digit(d) == <<"0", "1", "2", "3", "4", "5", "6", "7", "8", "9">>[d + 1]

(* Display of a non-negative integer. *)
RECURSIVE Digits(_)
Digits(n) == IF n < 10 THEN <<Digit(n)>> ELSE Digits(n \div 10) \o <<Digit(n % 10)>>

(* format!("{}", c) for an i64 *)
FormatInt(c) == IF c < 0 THEN <<"-">> \o Digits(-c) ELSE Digits(c)

get_cover_image_url(t, c) ==
    <<IMAGE_BASE_URL, "/", t, "/id/">> \o FormatInt(c) \o <<"-", ImageSize, ".jpg?default=false">>

get_book_cover_image_url(c) == get_cover_image_url("b", c)

get_author_cover_image_url(c) == get_cover_image_url("a", c)

(* Itertools::unique: the first occurrence of every element, in order. *)
RECURSIVE Unique(_)
Unique(s) ==
    IF s = <<>> THEN <<>>
    ELSE LET init == SubSeq(s, 1, Len(s) - 1)
             last == s[Len(s)]
             u    == Unique(init)
         IN  IF \E i \in 1..Len(u) : u[i] = last THEN u ELSE Append(u, last)

Filter(s, Keep(_)) == SelectSeq(s, Keep)

Positive(c) == c > 0

(* The cover identifiers of the work, then of every edition in edition order. *)
AllCovers(work_covers, es) ==
    (IF IsSome(work_covers) THEN Unwrap(work_covers) ELSE <<>>)
      \o Flatten([i \in 1..Len(es) |->
                    IF IsSome(es[i].covers) THEN Unwrap(es[i].covers) ELSE <<>>])

MetadataImage(c) == [url |-> get_book_cover_image_url(c), lot |-> "Poster"]

(* Variant of Images without the unique() step. *)
ImagesNoUnique(work_covers, es) ==
    LET ids == Filter(AllCovers(work_covers, es), Positive)
    IN  [i \in 1..Len(ids) |-> MetadataImage(ids[i])]

Images(work_covers, es) ==
    LET ids == Filter(AllCovers(work_covers, es), Positive)
    IN  Unique([i \in 1..Len(ids) |-> MetadataImage(ids[i])])

---------------------------------------------------------------------------
(* Average page count (details, num_pages) *)

(* Iterator::sum::<i32>(): a left fold of + from 0; ovf when a partial sum *)
(* overflowed, val the wrapped total.                                      *)
RECURSIVE SumI32(_)
SumI32(s) ==
    IF s = <<>> THEN [ovf |-> FALSE, val |-> 0]
    ELSE LET r == SumI32(SubSeq(s, 1, Len(s) - 1))
             t == AddI32(r.val, s[Len(s)])
         IN  [ovf |-> r.ovf \/ t.ovf, val |-> t.val]

HasPages(e) == IsSome(e.number_of_pages)

(* entries.iter().filter_map(|f| f.number_of_pages).collect_vec() *)
AllPages(es) ==
    LET with == SelectSeq(es, HasPages)
    IN  [i \in 1..Len(with) |-> Unwrap(with[i].number_of_pages)]

(* [panic, val]: the sum panics on overflow when the build checks overflow. *)
NumPages(es, checks) ==
    LET all_pages == AllPages(es)
        sum       == SumI32(all_pages)
    IN  IF all_pages = <<>> THEN [panic |-> FALSE, val |-> 0]
        ELSE IF sum.ovf /\ checks THEN [panic |-> TRUE, val |-> 0]
        ELSE [panic |-> FALSE, val |-> DivI32(sum.val, Len(all_pages))]

---------------------------------------------------------------------------
(* Dates (parse_date, first_release_date) *)

(* Lexical tokens of a date string and items of a format string. *)
Lit(s)  == [k |-> "lit",  s |-> s,  n |-> 0]
Name(s) == [k |-> "name", s |-> s,  n |-> 0]
Num(n)  == [k |-> "num",  s |-> "", n |-> n]
Item(s) == [k |-> "item", s |-> s,  n |-> 0]

MonthNames == <<"Jan", "Feb", "Mar", "Apr", "May", "Jun",
                "Jul", "Aug", "Sep", "Oct", "Nov", "Dec">>

IsLeap(y) == (y % 4 = 0 /\ y % 100 # 0) \/ y % 400 = 0

DaysInMonth(y, m) ==
    IF m = 2 THEN (IF IsLeap(y) THEN 29 ELSE 28)
    ELSE IF m \in {4, 6, 9, 11} THEN 30 ELSE 31

(* chrono's Parsed: the fields a format has set so far. *)
NoFields == [y |-> None, m |-> None, d |-> None]

(* chrono::format::parse: consume the input item by item; None on a        *)
(* mismatch, on input left over (TooLong) or on input ending early         *)
(* (TooShort).                                                             *)
RECURSIVE ParseItems(_, _, _)
ParseItems(input, items, parsed) ==
    IF items = <<>> THEN (IF input = <<>> THEN Some(parsed) ELSE None)
    ELSE IF input = <<>> THEN None
    ELSE LET it == Head(items)
             tk == Head(input)
         IN  IF it.k = "lit"
               THEN IF tk.k = "lit" /\ tk.s = it.s
                      THEN ParseItems(Tail(input), Tail(items), parsed)
                      ELSE None
             ELSE IF it.s = "%b"
               THEN IF tk.k = "name" /\ \E m \in 1..12 : MonthNames[m] = tk.s
                      THEN ParseItems(Tail(input), Tail(items),
                             [parsed EXCEPT !.m =
                                Some(CHOOSE m \in 1..12 : MonthNames[m] = tk.s)])
                      ELSE None
             ELSE IF it.s = "%d"
               THEN IF tk.k = "num" /\ tk.n \in 0..99
                      THEN ParseItems(Tail(input), Tail(items),
                             [parsed EXCEPT !.d = Some(tk.n)])
                      ELSE None
             ELSE \* "%Y"
                    IF tk.k = "num"
                      THEN ParseItems(Tail(input), Tail(items),
                             [parsed EXCEPT !.y = Some(tk.n)])
                      ELSE None

(* Parsed::to_naive_date: a date needs its year, month and day           *)
(* (NotEnough otherwise) and must exist in the calendar (OutOfRange).    *)
ToNaiveDate(p) ==
    IF ~(IsSome(p.y) /\ IsSome(p.m) /\ IsSome(p.d)) THEN None
    ELSE LET y == Unwrap(p.y)
             m == Unwrap(p.m)
             d == Unwrap(p.d)
         IN  IF d \in 1..DaysInMonth(y, m) THEN Some(<<y, m, d>>) ELSE None

(* NaiveDate::parse_from_str(input, format) *)
ParseFromStr(input, format) ==
    LET p == ParseItems(input, format, NoFields)
    IN  IF IsSome(p) THEN ToNaiveDate(Unwrap(p)) ELSE None

FmtMonDayYear == <<Item("%b"), Lit(" "), Item("%d"), Lit(","), Lit(" "), Item("%Y")>>
FmtYear == <<Item("%Y")>>

(* let formats = ["%b %d, %Y", "%Y", "%b %d, %Y"]; *)
Formats == <<FmtMonDayYear, FmtYear, FmtMonDayYear>>

(* The first format that parses wins. *)
RECURSIVE ParseWith(_, _)
ParseWith(input, formats) ==
    IF formats = <<>> THEN None
    ELSE LET r == ParseFromStr(input, Head(formats))
         IN  IF IsSome(r) THEN r ELSE ParseWith(input, Tail(formats))

parse_date(input) == ParseWith(input, Formats)

(* NaiveDate's Ord *)
DateLeq(a, b) ==
    \/ a[1] < b[1]
    \/ a[1] = b[1] /\ a[2] < b[2]
    \/ a[1] = b[1] /\ a[2] = b[2] /\ a[3] <= b[3]

(* Iterator::min over a sequence of dates *)
MinDate(ds) ==
    IF ds = <<>> THEN None
    ELSE Some(CHOOSE d \in {ds[i] : i \in 1..Len(ds)} :
                 \A j \in 1..Len(ds) : DateLeq(d, ds[j]))

HasDate(e) == IsSome(e.publish_date)

ParsedDate(e) == parse_date(Unwrap(e.publish_date))

Parses(e) == IsSome(ParsedDate(e))

FirstReleaseDate(es) ==
    LET dated  == SelectSeq(SelectSeq(es, HasDate), Parses)
    IN  MinDate([i \in 1..Len(dated) |-> Unwrap(ParsedDate(dated[i]))])

(* first_release_date.map(|d| d.year()) *)
PublishYear(frd) == IF IsSome(frd) THEN Some(Unwrap(frd)[1]) ELSE None

---------------------------------------------------------------------------
(* Decoded records *)

(* OpenlibraryEdition *)
Edition(date, pages, covers) ==
    [publish_date |-> date, number_of_pages |-> pages, covers |-> covers]

(* OpenlibraryAuthorResponse::Flat(OpenlibraryKey) *)
Flat(key) == [variant |-> "Flat", key |-> key, role |-> None]

(* OpenlibraryAuthorResponse::Nested(OpenlibraryAuthor) *)
Nested(key, role) == [variant |-> "Nested", key |-> key, role |-> role]

(* OpenlibraryBook: the fields the modelled rules read. *)
Work(key, covers, authors) == [key |-> key, covers |-> covers, authors |-> authors]

(* The (key, role) pair the author loop derives from one reference. *)
AuthorKeyRole(a) ==
    IF a.variant = "Flat" THEN <<a.key, "Author">>
    ELSE <<a.key, IF IsSome(a.role) THEN Unwrap(a.role) ELSE "Author">>

(* photos.unwrap_or_default().into_iter().filter(|c| c > &0).first().map(url) *)
AuthorImage(photos) ==
    LET ps == Filter(IF IsSome(photos) THEN Unwrap(photos) ELSE <<>>, Positive)
    IN  IF ps = <<>> THEN None ELSE Some(get_author_cover_image_url(ps[1]))

MetadataCreator(a, body) ==
    [name |-> body.name, role |-> AuthorKeyRole(a)[2], image |-> AuthorImage(body.photos)]

(* Variant of PushCreator that inserts at the front. *)
PushCreatorFront(cs, c) == <<c>> \o cs

(* creators.push(..) *)
PushCreator(cs, c) == Append(cs, c)

---------------------------------------------------------------------------
(* Related works: the carousel fragment *)

(* One element matched by ".book.carousel__item": its first a[href]       *)
(* descendant (the href) and its first img.bookcover descendant (its alt  *)
(* and src attributes), each possibly missing.                            *)
CarouselItem(anchor, img) == [anchor |-> anchor, img |-> img]
Img(alt, src) == [alt |-> alt, src |-> src]

(* str::trim on a token sequence: drop blank tokens at both ends. *)
RECURSIVE TrimStart(_)
TrimStart(s) == IF s # <<>> /\ Head(s) = " " THEN TrimStart(Tail(s)) ELSE s

RECURSIVE TrimEnd(_)
TrimEnd(s) ==
    IF s # <<>> /\ s[Len(s)] = " " THEN TrimEnd(SubSeq(s, 1, Len(s) - 1)) ELSE s

Trim(s) == TrimEnd(TrimStart(s))

(* n.split(" by ").next().map(|name| name.trim().to_string()).unwrap() *)
TitleOf(alt) == Trim(Split(alt, " by ")[1])

HasAlt(item) == IsSome(item.img) /\ IsSome(Unwrap(item.img).alt)

PartialMetadata(item) ==
    [identifier |-> get_key(Unwrap(item.anchor)),
     title      |-> TitleOf(Unwrap(Unwrap(item.img).alt)),
     image      |-> Unwrap(item.img).src]

(* The extraction loop: [panic, suggestions].  The identifier is unwrapped *)
(* before the image is looked at, so an item without an a[href] panics.    *)
RECURSIVE Extract(_)
Extract(items) ==
    IF items = <<>> THEN [panic |-> FALSE, suggestions |-> <<>>]
    ELSE LET item == Head(items)
             rest == Extract(Tail(items))
         IN  IF ~IsSome(item.anchor) THEN [panic |-> TRUE, suggestions |-> <<>>]
             ELSE IF rest.panic THEN rest
             ELSE IF HasAlt(item)
               THEN [panic |-> FALSE,
                     suggestions |-> <<PartialMetadata(item)>> \o rest.suggestions]
             ELSE rest

---------------------------------------------------------------------------
(* Results *)
NoResult == [tag |-> "none"]
Err == [tag |-> "Err"]
Panic == [tag |-> "Panic"]
Ok(v) == [tag |-> "Ok", value |-> v]

(* The MediaDetails fields the modelled rules decide. *)
MediaDetails(d, es, cs, pages, frd, suggestions) ==
    [identifier   |-> get_key(d.key),
     creators     |-> cs,
     images       |-> Images(d.covers, es),
     publish_year |-> PublishYear(frd),
     pages        |-> Some(pages),
     suggestions  |-> suggestions]

---------------------------------------------------------------------------
(* Transport *)

(* One issued request: which call, its index (the author's position, the   *)
(* retry number), how it ended and what came back.                         *)
Req(call, idx, what) ==
    [call |-> call, idx |-> idx, what |-> what, outcome |-> "pending", body |-> <<>>]

(* How a request can end: the get fails, the body does not decode, or the  *)
(* body decodes.  "transient" is a failure the RetryMiddleware retries.    *)
PlainOutcomes == {"ok", "transport_error", "decode_error"}
GuardedOutcomes == PlainOutcomes \cup {"transient"}

Answered(cs, outcome, body) ==
    [cs EXCEPT ![Len(cs)] = [@ EXCEPT !.outcome = outcome, !.body = body]]

(* The `?` after each fetch and its body_json. *)
WorkFetchFails(outcome) == outcome # "ok"

(* Variant of EditionsFetchFails that swallows the failure. *)
EditionsFetchIgnoresFailure(outcome) == FALSE

EditionsFetchFails(outcome) == outcome # "ok"

AuthorFetchFails(outcome) == outcome # "ok"

PartialsFetchFails(outcome) == outcome # "ok"

SearchFetchFails(outcome) == outcome # "ok"

(* RetryMiddleware::new(3, ExponentialBackoff::..build_with_max_retries(3), 1) *)
MaxRetriesConfigured == 3

(* Variant of ShouldRetry with an off-by-one budget. *)
ShouldRetryOnceMore(n, outcome) == outcome = "transient" /\ n < MaxRetriesConfigured + 1

ShouldRetry(n, outcome) == outcome = "transient" /\ n < MaxRetriesConfigured

---------------------------------------------------------------------------
(* Bounds and input domains *)
MaxAuthors == 2
MaxItems == 2
MaxEditions == 3
MaxCovers == 4
MaxKeyLen == 4
MaxDocs == 1

Chars == {"/", "a", "b"}

(* The raw key "/w/a" and the identifier "a" it reduces to *)
KeyWorks == <<"/", "w", "/", "a">>
Identifier == <<"a">>

AuthorRefSamples ==
    {Flat(<<"/", "x", "/", "A">>),
     Nested(<<"/", "x", "/", "B">>, None),
     Nested(<<"/", "x", "/", "A">>, Some("Illustrator"))}

WorkBodies ==
    {Work(k, c, a) : k \in {KeyWorks, Identifier},
                     c \in {Some(<<1, 1, -1>>)},
                     a \in {None} \cup {Some(s) : s \in SeqUpTo(AuthorRefSamples, MaxAuthors)}}

DateJan1950 == <<Name("Jan"), Lit(" "), Num(1), Lit(","), Lit(" "), Num(1950)>>
DateMar1948 == <<Name("Mar"), Lit(" "), Num(15), Lit(","), Lit(" "), Num(1948)>>
DateFeb30   == <<Name("Feb"), Lit(" "), Num(30), Lit(","), Lit(" "), Num(1949)>>
Date1951    == <<Num(1951)>>
Date1947    == <<Num(1947)>>
DateCirca   == <<Name("circa"), Lit(" "), Num(1950)>>
DateStrings == {DateJan1950, DateMar1948, DateFeb30, Date1951, Date1947, DateCirca}

PageSamples == {7, 300, 320, -7, MaxI32}

CoverIds == {-1, 0, 1, 2}

(* What editions.json can decode to (OpenlibraryEditionsResponse.entries). *)
EditionsBodies ==
    {None,
     Some(<<>>),
     Some(<<Edition(Some(DateJan1950), Some(300), Some(<<1, 2>>)),
            Edition(Some(Date1951), Some(320), None)>>)}

AuthorBodies ==
    {[name |-> "Ann", photos |-> None], [name |-> "Bob", photos |-> Some(<<0, 5>>)]}

FullImg == Img(Some(<<" ", "Dune", " by ", "Herbert">>), Some("dune.jpg"))

ItemSamples ==
    {CarouselItem(Some(<<"/", "w", "/", "a">>), Some(FullImg)),
     CarouselItem(Some(<<"/", "w", "/", "b">>), None),
     CarouselItem(Some(<<"/", "w", "/", "b">>), Some(Img(None, Some("x.jpg")))),
     CarouselItem(None, Some(FullImg))}

(* The carousel items of the fragment partials.json returns. *)
Fragments == SeqUpTo(ItemSamples, MaxItems)

PageLimits == {1, 20}
PageArgs == {None, Some(1), Some(2), Some(3), Some(214748365), Some(MaxI32)}
Totals == {0, 40, 45, MaxI32}
DocSamples ==
    {[key |-> KeyWorks, cover_i |-> Some(7), first_publish_year |-> Some(1950)],
     [key |-> <<"a">>, cover_i |-> None, first_publish_year |-> None]}
SearchBodies == {[num_found |-> t, docs |-> d] : t \in Totals, d \in SeqUpTo(DocSamples, MaxDocs)}

IsbnBodies == {<<>>, <<KeyWorks>>, <<<<"/", "w", "/", "b">>, KeyWorks>>}

---------------------------------------------------------------------------
(* The service: one caller running details, search or id_from_isbn *)

NoWork == Work(<<>>, None, None)

Init ==
    /\ overflow_checks \in BOOLEAN
    /\ page_limit \in PageLimits
    /\ pc = "idle"
    /\ args = <<>>
    /\ calls = <<>>
    /\ retries = 0
    /\ data = NoWork
    /\ entries = <<>>
    /\ num_pages = 0
    /\ first_release_date = None
    /\ creators = <<>>
    /\ result = NoResult

Config == <<overflow_checks, page_limit>>
DetailsLocals == <<data, entries, num_pages, first_release_date, creators>>

Authors(d) == IF IsSome(d.authors) THEN Unwrap(d.authors) ELSE <<>>

(* The request the author loop, or the step after it, issues next. *)
NextAfterAuthor(d, done) ==
    IF done < Len(Authors(d))
      THEN Req("author", done + 1, AuthorKeyRole(Authors(d)[done + 1])[1])
      ELSE Req("partials", 0, get_key(d.key))

(* details(identifier): the work request is issued. *)
DetailsCall ==
    /\ pc = "idle"
    /\ args' = <<"details", Identifier>>
    /\ calls' = <<Req("work", 0, Identifier)>>
    /\ pc' = "work"
    /\ result' = NoResult
    /\ UNCHANGED <<Config, retries, DetailsLocals>>

(* works/{identifier}.json answers. *)
WorkResponse ==
    /\ pc = "work"
    /\ \E outcome \in PlainOutcomes, body \in WorkBodies :
         IF WorkFetchFails(outcome)
           THEN /\ calls' = Answered(calls, outcome, <<>>)
                /\ result' = Err
                /\ pc' = "done"
                /\ data' = data
           ELSE /\ data' = body
                /\ calls' = Append(Answered(calls, outcome, body),
                                   Req("editions", 0, get_key(body.key)))
                /\ result' = result
                /\ pc' = "editions"
    /\ UNCHANGED <<Config, args, retries, entries, num_pages, first_release_date, creators>>

(* works/{identifier}/editions.json answers; num_pages and                 *)
(* first_release_date are computed and the author loop starts.             *)
EditionsResponse ==
    /\ pc = "editions"
    /\ \E outcome \in PlainOutcomes, body \in EditionsBodies :
         IF EditionsFetchFails(outcome)
           THEN /\ calls' = Answered(calls, outcome, <<>>)
                /\ result' = Err
                /\ pc' = "done"
                /\ UNCHANGED <<entries, num_pages, first_release_date>>
           ELSE LET es == IF IsSome(body) THEN Unwrap(body) ELSE <<>>
                    np == NumPages(es, overflow_checks)
                    nx == NextAfterAuthor(data, 0)
                IN  /\ entries' = es
                    /\ IF np.panic
                         THEN /\ calls' = Answered(calls, outcome, body)
                              /\ result' = Panic
                              /\ pc' = "done"
                              /\ UNCHANGED <<num_pages, first_release_date>>
                         ELSE /\ num_pages' = np.val
                              /\ first_release_date' = FirstReleaseDate(es)
                              /\ calls' = Append(Answered(calls, outcome, body), nx)
                              /\ result' = result
                              /\ pc' = nx.call
    /\ UNCHANGED <<Config, args, retries, data, creators>>

(* {key}.json answers for the author the loop is at. *)
AuthorResponse ==
    /\ pc = "author"
    /\ \E outcome \in PlainOutcomes, body \in AuthorBodies :
         IF AuthorFetchFails(outcome)
           THEN /\ calls' = Answered(calls, outcome, <<>>)
                /\ result' = Err
                /\ pc' = "done"
                /\ creators' = creators
           ELSE LET i  == calls[Len(calls)].idx
                    nx == NextAfterAuthor(data, i)
                IN  /\ creators' = PushCreator(creators, MetadataCreator(Authors(data)[i], body))
                    /\ calls' = Append(Answered(calls, outcome, body), nx)
                    /\ result' = result
                    /\ pc' = nx.call
    /\ UNCHANGED <<Config, args, retries, data, entries, num_pages, first_release_date>>

(* partials.json answers; the carousel is extracted and details returns. *)
PartialsResponse ==
    /\ pc = "partials"
    /\ \E outcome \in PlainOutcomes, html \in Fragments :
         IF PartialsFetchFails(outcome)
           THEN /\ calls' = Answered(calls, outcome, <<>>)
                /\ result' = Err
           ELSE LET x == Extract(html)
                IN  /\ calls' = Answered(calls, outcome, html)
                    /\ result' = IF x.panic THEN Panic
                                 ELSE Ok(MediaDetails(data, entries, creators, num_pages,
                                                      first_release_date, x.suggestions))
    /\ pc' = "done"
    /\ UNCHANGED <<Config, args, retries, DetailsLocals>>

(* a - b on i32 *)
SubI32(a, b) ==
    IF b = MinI32
      THEN (IF a >= 0 THEN [ovf |-> TRUE, val |-> a + MinI32]
                      ELSE [ovf |-> FALSE, val |-> a - MinI32])
      ELSE AddI32(a, -b)

(* let page = page.unwrap_or(1); *)
PageOf(arg) == IF IsSome(arg) THEN Unwrap(arg) ELSE 1

(* "offset": (page - 1) * self.page_limit: [ovf, val] *)
Offset(page, limit) == MulI32(page - 1, limit)

(* The next_page of search: [ovf, val], ovf when one of its i32            *)
(* operations overflowed.                                                  *)
NextPage(page, limit, num_found) ==
    LET prod == MulI32(page, limit)
        diff == SubI32(num_found, prod.val)
        succ == AddI32(page, 1)
    IN  IF diff.val > 0
          THEN [ovf |-> prod.ovf \/ diff.ovf \/ succ.ovf, val |-> Some(succ.val)]
          ELSE [ovf |-> prod.ovf \/ diff.ovf, val |-> None]

(* BookSearchItem, then MediaSearchItem, of one doc. *)
MediaSearchItem(doc) ==
    [identifier   |-> get_key(doc.key),
     image        |-> IF IsSome(doc.cover_i)
                        THEN Some(get_book_cover_image_url(Unwrap(doc.cover_i)))
                        ELSE None,
     publish_year |-> doc.first_publish_year]

(* search(query, page, _): the offset is computed and search.json requested. *)
SearchCall ==
    /\ pc = "idle"
    /\ \E arg \in PageArgs :
         LET off == Offset(PageOf(arg), page_limit)
         IN  /\ args' = <<"search", arg>>
             /\ IF off.ovf /\ overflow_checks
                  THEN /\ calls' = <<>>
                       /\ result' = Panic
                       /\ pc' = "done"
                  ELSE /\ calls' = <<Req("search", 0, <<off.val, page_limit>>)>>
                       /\ result' = NoResult
                       /\ pc' = "search"
    /\ UNCHANGED <<Config, retries, DetailsLocals>>

(* search.json answers. *)
SearchResponse ==
    /\ pc = "search"
    /\ \E outcome \in PlainOutcomes, body \in SearchBodies :
         IF SearchFetchFails(outcome)
           THEN /\ calls' = Answered(calls, outcome, <<>>)
                /\ result' = Err
           ELSE LET np == NextPage(PageOf(args[2]), page_limit, body.num_found)
                IN  /\ calls' = Answered(calls, outcome, body)
                    /\ result' =
                         IF np.ovf /\ overflow_checks THEN Panic
                         ELSE Ok([total     |-> body.num_found,
                                  next_page |-> np.val,
                                  items     |-> [i \in 1..Len(body.docs) |->
                                                   MediaSearchItem(body.docs[i])]])
    /\ pc' = "done"
    /\ UNCHANGED <<Config, args, retries, DetailsLocals>>

(* id_from_isbn(isbn): isbn/{isbn}.json is requested through the           *)
(* GovernorMiddleware and the RetryMiddleware.  The limiter is built for   *)
(* this call and admits its first request.                                 *)
IsbnCall ==
    /\ pc = "idle"
    /\ args' = <<"id_from_isbn", "isbn">>
    /\ calls' = <<Req("isbn", 0, "isbn")>>
    /\ retries' = 0
    /\ result' = NoResult
    /\ pc' = "isbn"
    /\ UNCHANGED <<Config, DetailsLocals>>

(* isbn/{isbn}.json answers: a transient failure is retried while the      *)
(* middleware's budget lasts; any other failure, and a transient one with  *)
(* the budget used up, is what the call returns, and .ok()? turns it into  *)
(* None; a decoded body gives the first work's key, if any.                *)
IsbnResponse ==
    /\ pc = "isbn"
    /\ \E outcome \in GuardedOutcomes, body \in IsbnBodies :
         IF ShouldRetry(retries, outcome)
           THEN /\ retries' = retries + 1
                /\ calls' = Append(Answered(calls, outcome, <<>>),
                                   Req("isbn", retries + 1, "isbn"))
                /\ result' = result
                /\ pc' = pc
           ELSE /\ retries' = retries
                /\ pc' = "done"
                /\ IF outcome = "ok"
                     THEN /\ calls' = Answered(calls, outcome, body)
                          /\ result' = Ok(IF body = <<>> THEN None ELSE Some(get_key(body[1])))
                     ELSE /\ calls' = Answered(calls, outcome, <<>>)
                          /\ result' = Ok(None)
    /\ UNCHANGED <<Config, args, DetailsLocals>>

(* The caller takes the result; the next operation starts afresh. *)
Return ==
    /\ pc = "done"
    /\ pc' = "idle"
    /\ args' = <<>>
    /\ calls' = <<>>
    /\ retries' = 0
    /\ data' = NoWork
    /\ entries' = <<>>
    /\ num_pages' = 0
    /\ first_release_date' = None
    /\ creators' = <<>>
    /\ result' = NoResult
    /\ UNCHANGED Config

Next ==
    \/ DetailsCall
    \/ WorkResponse
    \/ EditionsResponse
    \/ AuthorResponse
    \/ PartialsResponse
    \/ SearchCall
    \/ SearchResponse
    \/ IsbnCall
    \/ IsbnResponse
    \/ Return

Spec == Init /\ [][Next]_vars

---------------------------------------------------------------------------
(* The normalisation rules of details on decoded fixtures: the work and    *)
(* editions records are given (no request is issued, the work has no       *)
(* authors and no related works), and Normalize computes what details      *)
(* computes from them.                                                     *)

AllKeys == SeqUpTo(Chars, MaxKeyLen)

KeyFixtures == {Work(k, None, None) : k \in AllKeys}

PageFixtures ==
    SeqUpTo({Edition(None, p, None) : p \in {None} \cup {Some(n) : n \in PageSamples}},
            MaxEditions)

DateFixtures ==
    SeqUpTo({Edition(d, None, None) : d \in {None} \cup {Some(x) : x \in DateStrings}},
            MaxEditions)

(* Some(ids), or None for no identifier *)
CoversOf(ids) == IF ids = <<>> THEN None ELSE Some(ids)

(* A work and two editions sharing out, in order, up to MaxCovers cover    *)
(* identifiers: the work takes the first a, the first edition the next     *)
(* b - a, the second edition the rest.                                     *)
CoverFixture(ids, a, b) ==
    <<Work(KeyWorks, CoversOf(SubSeq(ids, 1, a)), None),
      <<Edition(None, None, CoversOf(SubSeq(ids, a + 1, b))),
        Edition(None, None, CoversOf(SubSeq(ids, b + 1, Len(ids))))>>>>

CoverFixtures ==
    UNION {{CoverFixture(ids, c[1], c[2]) :
              c \in {d \in (0..Len(ids)) \X (0..Len(ids)) : d[1] <= d[2]}} :
           ids \in SeqUpTo(CoverIds, MaxCovers)}

InitNormalizer ==
    /\ overflow_checks \in BOOLEAN
    /\ page_limit = 20
    /\ pc = "decoded"
    /\ args = <<"details", Identifier>>
    /\ calls = <<>>
    /\ retries = 0
    /\ \/ data \in KeyFixtures /\ entries = <<>>
       \/ data = Work(KeyWorks, None, None) /\ entries \in PageFixtures \cup DateFixtures
       \/ \E f \in CoverFixtures : data = f[1] /\ entries = f[2]
    /\ num_pages = 0
    /\ first_release_date = None
    /\ creators = <<>>
    /\ result = NoResult

Normalize ==
    /\ pc = "decoded"
    /\ LET np == NumPages(entries, overflow_checks)
       IN  IF np.panic
             THEN /\ result' = Panic
                  /\ UNCHANGED <<num_pages, first_release_date>>
             ELSE /\ num_pages' = np.val
                  /\ first_release_date' = FirstReleaseDate(entries)
                  /\ result' = Ok(MediaDetails(data, entries, creators, np.val,
                                               FirstReleaseDate(entries), <<>>))
    /\ pc' = "done"
    /\ UNCHANGED <<Config, args, calls, retries, data, entries, creators>>

NextNormalizer == Normalize

SpecNormalizer == InitNormalizer /\ [][NextNormalizer]_vars

---------------------------------------------------------------------------
(* Properties *)

Failures == {"transport_error", "decode_error", "transient"}

Running(op) == args # <<>> /\ args[1] = op
Returned(op) == pc = "done" /\ Running(op)

CallIdx(c) == {i \in 1..Len(calls) : calls[i].call = c}
IsAuthorCall(r) == r.call = "author"
Succeeded(c) == CallIdx(c) # {} /\ \A i \in CallIdx(c) : calls[i].outcome = "ok"
Failed(c) == \E i \in CallIdx(c) : calls[i].outcome \in Failures

(* The part of key after its last "/", or all of key when it has none. *)
LastSegmentOf(key) ==
    LET n      == Len(key)
        starts == {i \in 1..(n + 1) : \A j \in i..n : key[j] # "/"}
        first  == CHOOSE i \in starts : \A j \in starts : i <= j
    IN  SubSeq(key, first, n)

(* C1: once the work, the editions and every author fetch have succeeded,  *)
(* a failure of the related-works request (the get fails or the body does  *)
(* not decode) makes details return Ok with no suggestions, never an error.*)
C1_RelatedWorksFailureDegrades ==
    (Returned("details") /\ Succeeded("work") /\ Succeeded("editions") /\ Failed("partials"))
      => (result.tag = "Ok" /\ result.value.suggestions = <<>>)

(* C2: the extraction never aborts: for every fragment that was fetched,   *)
(* details returns Ok and its suggestions are, in document order, exactly  *)
(* the items having both an a[href] and an img.bookcover with alt text,    *)
(* each identified by the last segment of its href; any other item is      *)
(* skipped alone, and an empty fragment gives no suggestions.              *)
CompleteItem(item) == IsSome(item.anchor) /\ HasAlt(item)
ExpectedSuggestionIds(html) ==
    LET ok == SelectSeq(html, CompleteItem)
    IN  [i \in 1..Len(ok) |-> LastSegmentOf(Unwrap(ok[i].anchor))]
C2_ExtractionNeverAborts ==
    (Returned("details") /\ Succeeded("partials"))
      => /\ result.tag = "Ok"
         /\ [i \in 1..Len(result.value.suggestions) |->
               result.value.suggestions[i].identifier]
              = ExpectedSuggestionIds(calls[Len(calls)].body)

(* C3: the guarded isbn request is retried at most 3 times, only after a   *)
(* transient failure, and when the third retry fails too the failure is    *)
(* what the call gives id_from_isbn (which returns no identifier); every   *)
(* plain request (work, editions, author i, partials, search) is issued at *)
(* most once and nothing is issued after one of them failed.               *)
PlainCalls == {"work", "editions", "author", "partials", "search"}
C3_BoundedRetryAndPlainOnce ==
    /\ retries <= 3
    /\ Running("id_from_isbn") =>
         /\ Len(calls) = retries + 1
         /\ \A i \in 1..Len(calls) :
              /\ calls[i].call = "isbn"
              /\ i < Len(calls) => calls[i].outcome = "transient"
         /\ (pc = "done" /\ calls[Len(calls)].outcome = "transient")
              => (retries = 3 /\ result = Ok(None))
    /\ \A i \in 1..Len(calls) :
         calls[i].call \in PlainCalls =>
           /\ \A j \in 1..Len(calls) :
                (calls[j].call = calls[i].call /\ calls[j].idx = calls[i].idx) => j = i
           /\ calls[i].outcome \in Failures => (i = Len(calls) /\ pc = "done")
C3_Witness ==
    /\ Returned("id_from_isbn")
    /\ retries = 3
    /\ Len(calls) = 4
    /\ calls[4].outcome = "transient"

(* C4: a failure of the work fetch or of the editions fetch ends details   *)
(* with an error at once: the failed request is the last one issued and    *)
(* no MediaDetails is returned.                                            *)
C4_EssentialFetchFailureAborts ==
    \A i \in 1..Len(calls) :
      (calls[i].call \in {"work", "editions"} /\ calls[i].outcome \in Failures)
        => (i = Len(calls) /\ pc = "done" /\ result = Err)
C4_Witness ==
    /\ Returned("details")
    /\ Len(calls) = 2
    /\ calls[1].outcome = "ok"
    /\ calls[2].call = "editions"
    /\ calls[2].outcome = "decode_error"
    /\ result = Err

(* C5: when details returns Ok, creators has one entry per author          *)
(* reference of the work, in the order of the references: entry i has the  *)
(* role of reference i ("Author" when it gives none) and the name that the *)
(* fetch of reference i's key returned; and when an author fetch failed,   *)
(* details returned an error.                                              *)
RoleGiven(a) ==
    IF a.variant = "Nested" /\ IsSome(a.role) THEN Unwrap(a.role) ELSE "Author"
C5_CreatorsFollowAuthors ==
    /\ (Returned("details") /\ result.tag = "Ok") =>
         LET refs    == Authors(data)
             cs      == result.value.creators
             fetches == SelectSeq(calls, IsAuthorCall)
         IN  /\ Len(cs) = Len(refs)
             /\ Len(fetches) = Len(refs)
             /\ \A i \in 1..Len(refs) :
                  /\ fetches[i].what = refs[i].key
                  /\ cs[i].name = fetches[i].body.name
                  /\ cs[i].role = RoleGiven(refs[i])
    /\ Failed("author") => (pc = "done" /\ result = Err)
C5_Witness ==
    /\ Returned("details")
    /\ result.tag = "Ok"
    /\ Len(result.value.creators) = 2
    /\ result.value.creators[1].name # result.value.creators[2].name
    /\ Authors(data)[1].key # Authors(data)[2].key
    /\ Authors(data)[1].variant = "Flat"
    /\ Authors(data)[2].variant = "Nested"

(* C6: for every search call with page >= 1 (1 when absent), page size L   *)
(* and reported total T, search returns total = T and next_page =          *)
(* Some(page + 1) exactly when T - page * L > 0, else None.                *)
ExpectedNextPage(page, limit, total) ==
    IF total >= 1 /\ page <= (total - 1) \div limit THEN Some(page + 1) ELSE None
C6_NextPage ==
    (Returned("search") /\ Succeeded("search"))
      => /\ result.tag = "Ok"
         /\ result.value.total = calls[1].body.num_found
         /\ result.value.next_page =
              ExpectedNextPage(PageOf(args[2]), page_limit, calls[1].body.num_found)

(* C6, within the i32 range: the same, for the calls whose page * L does   *)
(* not overflow.                                                           *)
C6_NextPageWithoutOverflow ==
    (Returned("search") /\ Succeeded("search")
       /\ ~MulI32(PageOf(args[2]), page_limit).ovf)
      => /\ result.tag = "Ok"
         /\ result.value.total = calls[1].body.num_found
         /\ result.value.next_page =
              ExpectedNextPage(PageOf(args[2]), page_limit, calls[1].body.num_found)

(* The truncated mean of a non-empty sequence of integers, computed from   *)
(* the quotients and remainders of its elements (the exact sum may not be  *)
(* an i32).                                                                *)
RECURSIVE SumOf(_)
SumOf(s) == IF s = <<>> THEN 0 ELSE Head(s) + SumOf(Tail(s))
TruncatedMean(xs) ==
    LET n == Len(xs)
        q == SumOf([i \in 1..n |-> xs[i] \div n])
        r == SumOf([i \in 1..n |-> xs[i] % n])
        f == q + (r \div n)
    IN  IF f >= 0 \/ r % n = 0 THEN f ELSE f + 1
Reported(es) ==
    LET with == SelectSeq(es, HasPages)
    IN  [i \in 1..Len(with) |-> Unwrap(with[i].number_of_pages)]
ExpectedPages(es) == IF Reported(es) = <<>> THEN 0 ELSE TruncatedMean(Reported(es))

(* C7: for every list of editions, details returns pages = the truncated   *)
(* integer mean of the page counts of the editions that report one, and 0  *)
(* when none does (or there is no edition).                                *)
C7_PagesIsTruncatedMean ==
    pc = "done" => (result.tag = "Ok" /\ result.value.pages = Some(ExpectedPages(entries)))

(* C7, within the i32 range: the same, for the edition lists whose page    *)
(* counts add up without overflow.                                         *)
C7_PagesWithoutOverflow ==
    (pc = "done" /\ ~SumI32(AllPages(entries)).ovf)
      => (result.tag = "Ok" /\ result.value.pages = Some(ExpectedPages(entries)))

(* The year a publish_date string gives when it has one of the two shapes  *)
(* "Mon DD, YYYY" (an existing day) or "YYYY"; None otherwise.             *)
YearOfDateString(d) ==
    IF Len(d) = 1 /\ d[1].k = "num" THEN Some(d[1].n)
    ELSE IF /\ Len(d) = 6
            /\ d[1].k = "name" /\ (\E m \in 1..12 : MonthNames[m] = d[1].s)
            /\ d[3].k = "num" /\ d[6].k = "num"
            /\ d[3].n \in 1..DaysInMonth(d[6].n, CHOOSE m \in 1..12 : MonthNames[m] = d[1].s)
      THEN Some(d[6].n)
    ELSE None
ExpectedPublishYear(es) ==
    LET years == {Unwrap(YearOfDateString(Unwrap(es[i].publish_date))) :
                    i \in {j \in 1..Len(es) :
                             /\ IsSome(es[j].publish_date)
                             /\ IsSome(YearOfDateString(Unwrap(es[j].publish_date)))}}
    IN  IF years = {} THEN None
        ELSE Some(CHOOSE y \in years : \A z \in years : y <= z)

(* C8: publish_year is the year of the earliest publish_date among the     *)
(* editions' dates of shape "Mon DD, YYYY" or "YYYY", the other strings    *)
(* and the editions without a date being left out, and is absent when no   *)
(* date has one of the two shapes.                                         *)
C8_PublishYearIsMinimum ==
    (pc = "done" /\ result.tag = "Ok")
      => result.value.publish_year = ExpectedPublishYear(entries)

(* C8, without the year-only shape: the same, for the edition lists in     *)
(* which no publish_date is a bare year.                                   *)
C8_PublishYearWithoutBareYears ==
    (pc = "done" /\ result.tag = "Ok"
       /\ \A i \in 1..Len(entries) :
            IsSome(entries[i].publish_date) => Len(Unwrap(entries[i].publish_date)) # 1)
      => result.value.publish_year = ExpectedPublishYear(entries)

(* C9: the images of the returned MediaDetails hold no two entries with    *)
(* the same URL and are, in order, the URLs of the positive identifiers at *)
(* their first occurrence in the work's covers followed by each edition's  *)
(* covers in edition order; no entry comes from an identifier <= 0.        *)
FirstSeen(ids) ==
    {p \in 1..Len(ids) : ids[p] > 0 /\ \A q \in 1..(p - 1) : ids[q] # ids[p]}
C9_ImagesUniquePositiveInOrder ==
    (pc = "done" /\ result.tag = "Ok") =>
      LET ids  == AllCovers(data.covers, entries)
          imgs == result.value.images
      IN  /\ \A i, j \in 1..Len(imgs) : imgs[i].url = imgs[j].url => i = j
          /\ Len(imgs) = Cardinality(FirstSeen(ids))
          /\ \A k \in 1..Len(imgs) :
               \E p \in FirstSeen(ids) :
                 /\ Cardinality({q \in FirstSeen(ids) : q < p}) = k - 1
                 /\ imgs[k].url = get_book_cover_image_url(ids[p])
C9_Witness ==
    /\ pc = "done"
    /\ result.tag = "Ok"
    /\ data.covers = Some(<<2>>)
    /\ Len(entries) = 2
    /\ entries[1].covers = Some(<<0>>)
    /\ entries[2].covers = Some(<<2, 1>>)
    /\ Len(result.value.images) = 2

(* C10: the identifier details returns is the last slash-delimited segment *)
(* of the work's raw key, whatever the number of segments before it, never *)
(* a key that still holds a "/", and get_key maps it to itself.            *)
C10_IdentifierIsLastSegment ==
    (pc = "done" /\ result.tag = "Ok") =>
      /\ result.value.identifier = LastSegmentOf(data.key)
      /\ \A i \in 1..Len(result.value.identifier) : result.value.identifier[i] # "/"
      /\ get_key(result.value.identifier) = result.value.identifier
C10_Witness ==
    /\ pc = "done"
    /\ result.tag = "Ok"
    /\ data.key = <<"/", "b", "/", "a">>
    /\ result.value.identifier = <<"a">>

=============================================================================
